---------------------------- MODULE Spec2Model ----------------------------
(***************************************************************************)
(* A model of the quiz server of src/index.js: the continuation registry   *)
(* (sendSuspend and the /continue/:continuationID route), the question     *)
(* types, and the authoring and play procedures built on them.             *)
(*                                                                         *)
(* Node runs one request handler at a time, and the promise reactions a    *)
(* handler schedules (the rest of an awaiting procedure) run before the    *)
(* next request is taken.  One action of the model is therefore one        *)
(* request: the route handler together with the procedure it starts or     *)
(* resumes, up to that procedure's next suspension or uncaught exception.  *)
(* An uncaught exception inside an async procedure rejects a promise that  *)
(* nobody handles: the procedure is gone and nothing is sent on the        *)
(* response it held.  The model lets the server go on serving afterwards,  *)
(* as a Node that only warns about unhandled rejections does.              *)
(* One specification, SpecSteps, follows sendSuspend statement by          *)
(* statement instead, to show what the handling of requests can observe    *)
(* between its statements.                                                 *)
(*                                                                         *)
(* Rendering (pug) and Date.now() are not modelled: a page is the template *)
(* name with the options handed to it, and response times do not appear.   *)
(***************************************************************************)
EXTENDS Integers, Sequences, FiniteSets, TLC

(***************************************************************************)
(* JavaScript values.  A string is its sequence of characters.             *)
(***************************************************************************)
Undefined == [t |-> "undefined"]
Null == [t |-> "null"]
NaN == [t |-> "number", nan |-> TRUE]
Str(s) == [t |-> "string", s |-> s]
Num(n) == [t |-> "number", n |-> n]
Bool(b) == [t |-> "boolean", b |-> b]
Arr(e) == [t |-> "array", elems |-> e]
Obj(p) == [t |-> "object", props |-> p]

NoProps == [k \in {} |-> Undefined]

\* o.k throws a TypeError when o is undefined or null.
CanRead(o) == o.t \notin {"undefined", "null"}

\* o.k for an own data property k of a plain object; undefined otherwise.
Get(o, k) ==
  IF o.t = "object" /\ k \in DOMAIN o.props THEN o.props[k] ELSE Undefined

\* ToBoolean, as taken by if(...).
Truthy(v) ==
  CASE v.t \in {"undefined", "null"} -> FALSE
    [] v.t = "string" -> v.s # <<>>
    [] v.t = "boolean" -> v.b
    [] v.t = "number" -> "n" \in DOMAIN v /\ v.n # 0
    [] OTHER -> TRUE

(***************************************************************************)
(* Characters and String.prototype.toLowerCase.                            *)
(***************************************************************************)
UpperCase == {"P", "L", "G", "Q"}
LowerCaseOf ==
  [c \in UpperCase |->
     CASE c = "P" -> "p" [] c = "L" -> "l" [] c = "G" -> "g" [] c = "Q" -> "q"]

ToLowerChar(c) == IF c \in UpperCase THEN LowerCaseOf[c] ELSE c

toLowerCase(s) == [i \in 1..Len(s) |-> ToLowerChar(s[i])]

Digits == <<"0", "1", "2", "3", "4", "5", "6", "7", "8", "9">>

DigitValue(c) == (CHOOSE i \in 1..10 : Digits[i] = c) - 1

IsDigit(c) == \E i \in 1..10 : Digits[i] = c

RECURSIVE DecimalValue(_)
DecimalValue(s) ==
  IF s = <<>> THEN 0
  ELSE 10 * DecimalValue(SubSeq(s, 1, Len(s) - 1)) + DigitValue(s[Len(s)])

\* ToNumber of a string of the model's alphabet: "" is 0, a run of decimal
\* digits is its value, anything else is NaN.
StringToNumber(s) ==
  IF \A i \in 1..Len(s) : IsDigit(s[i]) THEN Num(DecimalValue(s)) ELSE NaN

\* ToNumber for the primitives that reach ==.
ToNumber(v) ==
  CASE v.t = "number" -> v
    [] v.t = "string" -> StringToNumber(v.s)
    [] v.t = "boolean" -> IF v.b THEN Num(1) ELSE Num(0)
    [] v.t = "null" -> Num(0)
    [] OTHER -> NaN

NumberEquals(a, b) == "n" \in DOMAIN a /\ "n" \in DOMAIN b /\ a.n = b.n

\* a == b (abstract equality) on primitives; two distinct objects or arrays
\* are never ==, and an object against a primitive is outside the inputs.
LooseEquals(a, b) ==
  CASE a.t \in {"undefined", "null"} -> b.t \in {"undefined", "null"}
    [] b.t \in {"undefined", "null"} -> FALSE
    [] a.t \in {"object", "array"} \/ b.t \in {"object", "array"} -> FALSE
    [] a.t = "string" /\ b.t = "string" -> a.s = b.s
    [] OTHER -> NumberEquals(ToNumber(a), ToNumber(b))


(***************************************************************************)
(* JSON.  A JSON text is the document it denotes, or a text that denotes   *)
(* none; a data: URI is the text it encodes.                               *)
(***************************************************************************)
JsonText(doc) == [t |-> "text", json |-> doc]
NotJson == [t |-> "text"]

RECURSIVE SerializeJSONProperty(_)
\* The document JSON.stringify writes for a value other than undefined: a
\* property whose value is undefined is left out, an array element that is
\* undefined is written as null, and so is NaN.
SerializeJSONProperty(v) ==
  CASE v.t = "object" ->
         Obj([k \in {j \in DOMAIN v.props : v.props[j] # Undefined} |->
                SerializeJSONProperty(v.props[k])])
    [] v.t = "array" ->
         Arr([i \in 1..Len(v.elems) |->
                IF v.elems[i] = Undefined THEN Null
                ELSE SerializeJSONProperty(v.elems[i])])
    [] v = NaN -> Null
    [] OTHER -> v

JSONstringify(v) ==
  IF v = Undefined THEN Undefined ELSE JsonText(SerializeJSONProperty(v))

\* JSON.parse throws a SyntaxError on a text that is not JSON.
JSONparseThrows(text) == "json" \notin DOMAIN text

JSONparse(text) == text.json

jsonToDataURI(json) == [scheme |-> "data:application/json;base64", base64 |-> json]

(***************************************************************************)
(* Question types (registerQuestionType).                                  *)
(***************************************************************************)
FreeType == <<"f", "r", "e", "e">>
MultipleType == <<"m", "u", "l", "t", "i", "p", "l", "e">>

\* The own keys of questionTypes after the two registrations.
RegisteredTypes == {FreeType, MultipleType}

\* questionTypes[key] is an entry: the key is a registered type name.
HasQuestionType(key) == key.t = "string" /\ key.s \in RegisteredTypes

ChoiceKeys == <<"choice1", "choice2", "choice3", "choice4", "choice5">>

\* The template a type's create sub-dialog suspends on.
CreateTemplate(typename) ==
  IF typename = FreeType THEN "add-question.pug" ELSE "add-multiple-choice.pug"

CreateTitle(typename) ==
  IF typename = FreeType THEN "Add a new question"
  ELSE "Add a multiple choice question"

\* The question methods.create returns once its suspension is resumed with
\* request req.
FreeQuestion(req) ==
  Obj([text |-> Get(req.query, "question"), answer |-> Get(req.query, "answer")])

MultipleQuestion(req) ==
  Obj([text |-> Get(req.query, "question"),
       answer |-> Get(req.query, "correctIndex"),
       choices |-> Arr([i \in 1..5 |-> Get(req.query, ChoiceKeys[i])])])

MethodsCreate(typename, req) ==
  IF typename = FreeType THEN FreeQuestion(req) ELSE MultipleQuestion(req)

\* Object.assign(question, { type: typename }).
AssignType(question, typename) ==
  Obj([k \in DOMAIN question.props \cup {"type"} |->
         IF k = "type" THEN Str(typename) ELSE question.props[k]])

present(typename) ==
  IF typename = FreeType THEN "present-free-text.pug"
  ELSE "present-multiple-choice.pug"

\* free: question.answer.toLowerCase() === answer.toLowerCase() throws a
\* TypeError unless both are strings.
FreeMarkThrows(question, answer) ==
  Get(question, "answer").t # "string" \/ answer.t # "string"

\* A mark that compares the two strings as they are.
FreeMarkExact(question, answer) == Get(question, "answer").s = answer.s

FreeMark(question, answer) ==
  toLowerCase(Get(question, "answer").s) = toLowerCase(answer.s)

\* A mark that compares with === instead.
MultipleMarkStrict(question, answer) == Get(question, "answer") = answer

\* multiple: question.answer == answer.
MultipleMark(question, answer) == LooseEquals(Get(question, "answer"), answer)

markThrows(typename, question, answer) ==
  typename = FreeType /\ FreeMarkThrows(question, answer)

mark(typename, question, answer) ==
  IF typename = FreeType THEN FreeMark(question, answer)
  ELSE MultipleMark(question, answer)

(***************************************************************************)
(* The procedures.  A frame is a suspended procedure: where it waits and   *)
(* the local variables it still reads.  g holds the two variables the      *)
(* procedures assign without declaring them, req and question, which are   *)
(* properties of the global object.                                        *)
(***************************************************************************)
NoType == <<>>

Frame(pc, quiz, ctype, qi, stats) ==
  [pc |-> pc, quiz |-> quiz, ctype |-> ctype, qi |-> qi, stats |-> stats]

\* The procedure reached a sendSuspendTemplate(res, filename, options) call
\* and waits there as frame.
Suspended(frame, filename, options, g) ==
  [threw |-> FALSE, frame |-> frame, filename |-> filename,
   options |-> options, g |-> g]

\* The procedure ended in an uncaught exception.
Thrown(g) == [threw |-> TRUE, g |-> g]

\* One pass of manageQuiz's loop up to its suspension on the overview.
manageQuiz(quiz, g) ==
  Suspended(Frame("overview", quiz, NoType, 0, <<>>), "quiz-overview.pug",
            [quiz |-> quiz, title |-> "Overview",
             downloadLink |-> jsonToDataURI(JSONstringify(quiz))], g)

RECURSIVE CountCorrect(_)
CountCorrect(stats) ==
  IF stats = <<>> THEN 0
  ELSE CountCorrect(Tail(stats)) + (IF Head(stats).correct THEN 1 ELSE 0)

\* stats.map(stat => stat.correct).reduce(add) on a non-empty stats: with one
\* element reduce returns that element, a boolean; with more, + adds the
\* booleans as numbers.
AnswersCorrect(stats) ==
  IF Len(stats) = 1 THEN Bool(stats[1].correct) ELSE Num(CountCorrect(stats))

\* playQuiz from the i-th turn of its for loop, with the stats of the turns
\* before it, up to the next suspension.
playQuizFrom(quiz, i, stats, g) ==
  IF ~CanRead(quiz) \/ Get(quiz, "questions").t # "array" THEN Thrown(g)
  ELSE LET questions == Get(quiz, "questions").elems IN
    IF i <= Len(questions) THEN
      LET question == questions[i] IN
      IF ~CanRead(question) \/ ~HasQuestionType(Get(question, "type"))
      THEN Thrown(g)
      ELSE Suspended(Frame("present", quiz, NoType, i, stats),
                     present(Get(question, "type").s),
                     [title |-> Get(quiz, "title"), quiz |-> quiz,
                      question |-> question], g)
    ELSE IF stats = <<>> THEN Thrown(g)   \* reduce of an empty array
    ELSE Suspended(Frame("finished", quiz, NoType, 0, <<>>), "finished-quiz.pug",
                   [title |-> Get(quiz, "title"),
                    answersCorrect |-> AnswersCorrect(stats),
                    totalQuestions |-> Len(stats)], g)

\* One pass of playQuiz's while loop: const stats = [].
playQuiz(quiz, g) == playQuizFrom(quiz, 1, <<>>, g)

\* /new after its suspension: req is the handler's own parameter.
ResumeNew(req, g) ==
  manageQuiz(Obj([title |-> Get(req.query, "quizTitle"), questions |-> Arr(<<>>)]), g)

\* /load after its suspension: JSON.parse(req.files.file.data).
ResumeLoad(req, g) ==
  IF \/ ~CanRead(req.files) 
     \/ ~CanRead(Get(req.files, "file"))
     \/ JSONparseThrows(Get(Get(req.files, "file"), "data"))
  THEN Thrown(g)
  ELSE manageQuiz(JSONparse(Get(Get(req.files, "file"), "data")), g)

\* A manageQuiz whose second branch is a plain else.
ResumeOverviewPlays(frame, req, g) ==
  LET g1 == [g EXCEPT !.req = req] IN
  IF Truthy(Get(g1.req.query, "addQuestion")) THEN
    IF ~HasQuestionType(Get(g1.req.query, "type")) THEN Thrown(g1)
    ELSE LET typename == Get(g1.req.query, "type").s IN
      Suspended(Frame("create", frame.quiz, typename, 0, <<>>),
                CreateTemplate(typename), [title |-> CreateTitle(typename)], g1)
  ELSE playQuiz(frame.quiz, g1)

\* manageQuiz after the overview: [req, res] = await ... assigns the global req.
ResumeOverview(frame, req, g) ==
  LET g1 == [g EXCEPT !.req = req] IN
  IF Truthy(Get(g1.req.query, "addQuestion")) THEN
    IF ~HasQuestionType(Get(g1.req.query, "type")) THEN Thrown(g1)
    ELSE LET typename == Get(g1.req.query, "type").s IN
      Suspended(Frame("create", frame.quiz, typename, 0, <<>>),
                CreateTemplate(typename), [title |-> CreateTitle(typename)], g1)
  ELSE IF Truthy(Get(g1.req.query, "playQuiz")) THEN playQuiz(frame.quiz, g1)
  ELSE manageQuiz(frame.quiz, g1)

\* quiz.questions.unshift(question) in the place of push.
UnshiftQuestion(quiz, question) ==
  Obj([quiz.props EXCEPT !.questions = Arr(<<question>> \o quiz.props.questions.elems)])

\* quiz.questions.push(question).
PushThrows(quiz) == ~CanRead(quiz) \/ Get(quiz, "questions").t # "array"

PushQuestion(quiz, question) ==
  Obj([quiz.props EXCEPT !.questions = Arr(Append(quiz.props.questions.elems, question))])

\* The create sub-dialog after its suspension: methods.create builds the
\* question from its own req, the wrapper assigns it to the global question
\* and tags what it reads back, manageQuiz assigns the result to the global
\* question again and pushes what it reads back.
ResumeCreate(frame, req, g) ==
  LET g1 == [g EXCEPT !.question = MethodsCreate(frame.ctype, req)]
      g2 == [g1 EXCEPT !.question = AssignType(g1.question, frame.ctype)]
  IN IF PushThrows(frame.quiz) THEN Thrown(g2)
     ELSE manageQuiz(PushQuestion(frame.quiz, g2.question), g2)

\* A playQuiz that marks the answer of the request the global req held
\* before this resumption.
ResumePresentStale(frame, req, g) ==
  LET question == Get(frame.quiz, "questions").elems[frame.qi]
      typename == Get(question, "type").s
      answer == Get(g.req.query, "answer")
  IN IF markThrows(typename, question, answer) THEN Thrown([g EXCEPT !.req = req])
     ELSE LET correct == mark(typename, question, answer) IN
       Suspended(Frame("feedback", frame.quiz, NoType, frame.qi,
                       Append(frame.stats, [question |-> question, correct |-> correct])),
                 "feedback.pug",
                 [title |-> Get(frame.quiz, "title"), correct |-> correct,
                  userAnswer |-> answer, question |-> question],
                 [g EXCEPT !.req = req])

\* playQuiz after presenting a question.
ResumePresent(frame, req, g) ==
  LET g1 == [g EXCEPT !.req = req]
      question == Get(frame.quiz, "questions").elems[frame.qi]
      typename == Get(question, "type").s
      answer == Get(g1.req.query, "answer")
  IN IF markThrows(typename, question, answer) THEN Thrown(g1)
     ELSE LET correct == mark(typename, question, answer) IN
       Suspended(Frame("feedback", frame.quiz, NoType, frame.qi,
                       Append(frame.stats, [question |-> question, correct |-> correct])),
                 "feedback.pug",
                 [title |-> Get(frame.quiz, "title"), correct |-> correct,
                  userAnswer |-> Get(g1.req.query, "answer"),
                  question |-> question], g1)

\* A for loop that steps over a question.
ResumeFeedbackSkips(frame, req, g) ==
  playQuizFrom(frame.quiz, frame.qi + 2, frame.stats, [g EXCEPT !.req = req])

\* playQuiz after the feedback: the next turn of the for loop.
ResumeFeedback(frame, req, g) ==
  playQuizFrom(frame.quiz, frame.qi + 1, frame.stats, [g EXCEPT !.req = req])

\* A playQuiz without the way back to the overview.
ResumeFinishedReplays(frame, req, g) ==
  playQuiz(frame.quiz, [g EXCEPT !.req = req])

\* playQuiz after the finished summary.
ResumeFinished(frame, req, g) ==
  LET g1 == [g EXCEPT !.req = req] IN
  IF Truthy(Get(g1.req.query, "overview")) THEN manageQuiz(frame.quiz, g1)
  ELSE playQuiz(frame.quiz, g1)

\* continuation([req, res]): the awaiting procedure runs on, up to its next
\* suspension or uncaught exception.
Resume(frame, req, g) ==
  CASE frame.pc = "new" -> ResumeNew(req, g)
    [] frame.pc = "load" -> ResumeLoad(req, g)
    [] frame.pc = "overview" -> ResumeOverview(frame, req, g)
    [] frame.pc = "create" -> ResumeCreate(frame, req, g)
    [] frame.pc = "present" -> ResumePresent(frame, req, g)
    [] frame.pc = "feedback" -> ResumeFeedback(frame, req, g)
    [] frame.pc = "finished" -> ResumeFinished(frame, req, g)

(***************************************************************************)
(* The continuation registry.                                              *)
(***************************************************************************)
MAX_CONTINUATIONS == 100

VARIABLES
  continuations,  \* the object continuations: own key -> the frame its resolve function resumes
  uuids,          \* the array uuids
  nextUUID,       \* uuidv4() returns a fresh identifier: the nextUUID-th one
  g,              \* the global object's req and question
  last,           \* the request handled last and what was sent on its response
  resumptions,    \* per identifier, how many requests invoked its stored callback
  pending,        \* requests received and not yet handled
  answered,       \* per request of pending's history, how it was answered
  probe,          \* a call of a question type's mark: its arguments and result
  handler,        \* the handler the event loop is running, where it is followed
                  \* statement by statement, and how far it got
  history         \* the request handled before the last one, where it is kept

vars ==
  <<continuations, uuids, nextUUID, g, last, resumptions, pending, answered,
    probe, handler, history>>

\* The identifier the n-th call of uuidv4 returns, and a URL parameter that
\* is some other string.
UUID(n) == [uuid |-> n]
Name(s) == [name |-> s]

\* Properties every plain object inherits from Object.prototype whose value
\* is a function that returns normally when called with one argument.
InheritedFunctions == {Name("constructor")}

\* uuids.push[continuationID]: reads a property of the function
\* Array.prototype.push and discards it; the array is unchanged.
PushIndexed(uu, continuationID) == uu

RECURSIVE Evict(_, _)
\* while(uuids.length > MAX_CONTINUATIONS) { shift; delete }
Evict(uu, conts) ==
  IF Len(uu) > MAX_CONTINUATIONS
  THEN Evict(Tail(uu), [k \in DOMAIN conts \ {Head(uu)} |-> conts[k]])
  ELSE [uuids |-> uu, continuations |-> conts]

\* The message res.send hands to the transport.
Page(filename, continuationID, options) ==
  [kind |-> "page", filename |-> filename,
   continueURL |-> continuationID, options |-> options]

ExpiredNotice == [kind |-> "notice"]

\* A registry with one slot for the callback, shared by all identifiers.
StoreShared(conts, continuationID, frame) ==
  [k \in DOMAIN conts \cup {continuationID} |-> frame]

\* continuations[continuationID] = resolve.
Store(conts, continuationID, frame) == (continuationID :> frame) @@ conts

\* A handler that leaves the entry in place.
KeepEntry(conts, continuationID) == conts

\* delete continuations[req.params.continuationID].
Delete(conts, continuationID) ==
  [k \in DOMAIN conts \ {continuationID} |-> conts[k]]

\* sendSuspend for a procedure that reached a suspension: the registry and
\* the array after it.
sendSuspend(conts, uu, continuationID, frame) ==
  LET evicted == Evict(PushIndexed(uu, continuationID), conts) IN
  [uuids |-> evicted.uuids,
   continuations |-> Store(evicted.continuations, continuationID, frame)]

\* continuations[req.params.continuationID] !== undefined.
Defined(conts, continuationID) ==
  continuationID \in DOMAIN conts \/ continuationID \in InheritedFunctions

NoRequest == [t |-> "undefined"]

Request(query, files) == [query |-> query, files |-> files]

\* The place of a request that resumed no procedure.
NoPlace == "none"

\* The record of a handled request; pc is the suspension it resumed.
Handled(route, token, req, invoked, pc, threw, sends) ==
  [route |-> route, token |-> token, req |-> req, invoked |-> invoked,
   pc |-> pc, threw |-> threw, sends |-> sends]

\* What a request that starts or resumes a procedure leaves behind, the
\* procedure having run from pc to outcome.
Land(route, token, req, invoked, pc, conts, outcome) ==
  IF outcome.threw
  THEN /\ continuations' = conts
       /\ UNCHANGED <<uuids, nextUUID>>
       /\ g' = outcome.g
       /\ last' = Handled(route, token, req, invoked, pc, TRUE, <<>>)
  ELSE LET continuationID == UUID(nextUUID)
           reg == sendSuspend(conts, uuids, continuationID, outcome.frame)
       IN /\ continuations' = reg.continuations
          /\ uuids' = reg.uuids
          /\ nextUUID' = nextUUID + 1
          /\ g' = outcome.g
          /\ last' = Handled(route, token, req, invoked, pc, FALSE,
                             <<Page(outcome.filename, continuationID,
                                    outcome.options)>>)

NoToken == Name("")

\* A request with neither a query string nor an upload.
NoInput == Request(Obj(NoProps), Undefined)

\* app.get("/new"): suspend on the new-quiz prompt.
HandleNew ==
  /\ Land("new", NoToken, NoInput, "none", NoPlace, continuations,
          Suspended(Frame("new", Undefined, NoType, 0, <<>>), "new-quiz.pug",
                    [title |-> "Create a new quiz"], g))
  /\ UNCHANGED resumptions

\* app.get("/load"): suspend on the load-quiz prompt.
HandleLoad ==
  /\ Land("load", NoToken, NoInput, "none", NoPlace, continuations,
          Suspended(Frame("load", Undefined, NoType, 0, <<>>), "load-quiz.pug",
                    [title |-> "Load a quiz from file"], g))
  /\ UNCHANGED resumptions

\* app.all('/continue/:continuationID').
HandleContinue(continuationID, req) ==
  IF continuationID \in DOMAIN continuations THEN
    /\ Land("continue", continuationID, req, "continuation",
            continuations[continuationID].pc,
            Delete(continuations, continuationID),
            Resume(continuations[continuationID], req, g))
    /\ resumptions' =
         (continuationID :>
            (IF continuationID \in DOMAIN resumptions
             THEN resumptions[continuationID] + 1 ELSE 1)) @@ resumptions
  ELSE IF Defined(continuations, continuationID) THEN
    \* an inherited function is called with [req, res]; nothing is sent
    /\ last' = Handled("continue", continuationID, req, "inherited", NoPlace,
                       FALSE, <<>>)
    /\ UNCHANGED <<continuations, uuids, nextUUID, g, resumptions>>
  ELSE
    /\ last' = Handled("continue", continuationID, req, "none", NoPlace,
                       FALSE, <<ExpiredNotice>>)
    /\ UNCHANGED <<continuations, uuids, nextUUID, g, resumptions>>

(***************************************************************************)
(* Requests: the inputs the transport may deliver.                         *)
(***************************************************************************)
Geo == Str(<<"G", "e", "o">>)
Capital == Str(<<"Q", "?">>)
Paris == Str(<<"P", "a", "r", "i", "s">>)
paris == Str(<<"p", "a", "r", "i", "s">>)
Lyon == Str(<<"L", "y", "o", "n">>)
On == Str(<<"1">>)
Two == Str(<<"2">>)
Three == Str(<<"3">>)

EmptyQuery == Obj(NoProps)

\* A client answers the page it was sent: it submits that page's form, with
\* some of its fields possibly left out, or follows one of its links.
TitleQueries == { Obj([quizTitle |-> Geo]), EmptyQuery }

OverviewQueries ==
  { EmptyQuery,
    Obj([addQuestion |-> On, type |-> Str(FreeType)]),
    Obj([addQuestion |-> On, type |-> Str(MultipleType)]),
    Obj([addQuestion |-> On]),
    Obj([addQuestion |-> On, type |-> Str(<<"e", "s", "s", "a", "y">>)]),
    Obj([playQuiz |-> On]) }

FreeQueries ==
  { Obj([question |-> Capital, answer |-> Paris]),
    Obj([question |-> Capital]),
    EmptyQuery }

MultipleQueries ==
  { Obj([question |-> Capital, correctIndex |-> Two, choice1 |-> Lyon,
         choice2 |-> Paris, choice3 |-> Geo, choice4 |-> Two, choice5 |-> Three]),
    Obj([correctIndex |-> Two, choice2 |-> Paris]),
    Obj([question |-> Capital, choice1 |-> Lyon, choice2 |-> Paris,
         choice3 |-> Geo, choice4 |-> Two, choice5 |-> Three]) }

AnswerQueries ==
  { Obj([answer |-> paris]), Obj([answer |-> Lyon]), Obj([answer |-> Two]),
    EmptyQuery }

FinishedQueries == { EmptyQuery, Obj([overview |-> On]) }

Upload(text) == Obj([file |-> Obj([data |-> text])])

\* A quiz file written by hand: the correct index is a number.
SampleQuiz ==
  Obj([title |-> Geo,
       questions |-> Arr(<<Obj([type |-> Str(MultipleType), text |-> Capital,
                                answer |-> Num(2),
                                choices |-> Arr(<<Lyon, Paris, Geo, Two, Three>>)])>>)])

UploadedTexts ==
  { NotJson, JsonText(Num(5)), JsonText(Null), JsonText(Obj([title |-> Geo])),
    JsonText(SampleQuiz) }

\* The texts behind the download links of the page sent last.
ExportedTexts ==
  { last.sends[i].options.downloadLink.base64 :
      i \in { j \in 1..Len(last.sends) :
                /\ last.sends[j].kind = "page"
                /\ last.sends[j].filename = "quiz-overview.pug" } }

QueriesFor(frame) ==
  CASE frame.pc = "new" -> TitleQueries
    [] frame.pc = "load" -> {EmptyQuery}
    [] frame.pc = "overview" -> OverviewQueries
    [] frame.pc = "create" ->
         IF frame.ctype = FreeType THEN FreeQueries ELSE MultipleQueries
    [] frame.pc = "present" -> AnswerQueries
    [] frame.pc = "feedback" -> {EmptyQuery}
    [] frame.pc = "finished" -> FinishedQueries

\* The requests that may resume frame.
RequestsFor(frame) ==
  { Request(q, Undefined) : q \in QueriesFor(frame) }
    \cup IF frame.pc = "load"
         THEN { Request(EmptyQuery, Upload(text)) :
                  text \in UploadedTexts \cup ExportedTexts }
         ELSE {}

(***************************************************************************)
(* The server, one request at a time.                                      *)
(***************************************************************************)
MaxTokens == 6
MaxSessions == 2

NoProbe == [fn |-> NoType]

\* The event loop runs no handler.
NoHandler == [at |-> "idle"]

\* The process after start-up: no continuation, no request handled.
InitServer ==
  /\ continuations = [k \in {} |-> Undefined]
  /\ uuids = <<>>
  /\ nextUUID = 1
  /\ g = [req |-> NoRequest, question |-> Undefined]
  /\ last = Handled("none", NoToken, NoInput, "none", NoPlace, FALSE, <<>>)
  /\ resumptions = [k \in {} |-> 0]
  /\ pending = {}
  /\ answered = [k \in {} |-> 0]
  /\ handler = NoHandler
  /\ history = <<>>

Init == InitServer /\ probe = NoProbe

\* The identifiers a client may put in a /continue URL besides the live
\* ones: the one resumed last (a form submitted twice), the first one minted
\* (a page kept from the start), and names that are no identifier.
StaleTokens ==
  (({ UUID(1) } \cup (IF last.invoked = "continuation" THEN { last.token } ELSE {}))
     \cap ({ UUID(n) : n \in 1..(nextUUID - 1) } \ DOMAIN continuations))
    \cup InheritedFunctions \cup { Name("x") }

CanStart ==
  nextUUID <= MaxTokens /\ Cardinality(DOMAIN continuations) < MaxSessions

DispatchNew ==
  CanStart /\ HandleNew /\ UNCHANGED <<pending, answered, probe, handler, history>>

DispatchLoad ==
  CanStart /\ HandleLoad /\ UNCHANGED <<pending, answered, probe, handler, history>>

\* A /continue request whose identifier is live, with any input.
DispatchResume ==
  \E continuationID \in DOMAIN continuations :
    \E req \in RequestsFor(continuations[continuationID]) :
    /\ nextUUID <= MaxTokens
    /\ HandleContinue(continuationID, req)
    /\ UNCHANGED <<pending, answered, probe, handler, history>>

\* A /continue request whose identifier is not live; the handler reads
\* nothing else of the request.
DispatchStale ==
  \E continuationID \in StaleTokens :
    /\ HandleContinue(continuationID, NoInput)
    /\ UNCHANGED <<pending, answered, probe, handler, history>>

Next == DispatchNew \/ DispatchLoad \/ DispatchResume \/ DispatchStale

Spec == Init /\ [][Next]_vars

(***************************************************************************)
(* One client that stays: it starts one session and answers every page it  *)
(* is sent, so that whole passes of the play procedure are followed.       *)
(***************************************************************************)
MaxQuestions == 2
MaxSteps == 12

FreeParis == Obj([type |-> Str(FreeType), text |-> Capital, answer |-> Paris])

MultipleTwo ==
  Obj([type |-> Str(MultipleType), text |-> Capital, answer |-> Two,
       choices |-> Arr(<<Lyon, Paris, Geo, Two, Three>>)])

\* A quiz file with n questions, a free-text one and a multiple-choice one
\* in turn.
QuizOf(n) ==
  Obj([title |-> Geo,
       questions |-> Arr([i \in 1..n |->
                            IF i % 2 = 1 THEN FreeParis ELSE MultipleTwo])])

SessionRequestsFor(frame) ==
  IF frame.pc = "load"
  THEN { Request(EmptyQuery, Upload(JsonText(QuizOf(n)))) : n \in 0..MaxQuestions }
  ELSE RequestsFor(frame)

SessionNew ==
  /\ nextUUID = 1
  /\ HandleNew
  /\ UNCHANGED <<pending, answered, probe, handler, history>>

SessionLoad ==
  /\ nextUUID = 1
  /\ HandleLoad
  /\ UNCHANGED <<pending, answered, probe, handler, history>>

SessionResume ==
  \E continuationID \in DOMAIN continuations :
    \E req \in SessionRequestsFor(continuations[continuationID]) :
    /\ nextUUID <= MaxSteps
    /\ HandleContinue(continuationID, req)
    /\ UNCHANGED <<pending, answered, probe, handler, history>>

NextSession == SessionNew \/ SessionLoad \/ SessionResume

SpecSession == Init /\ [][NextSession]_vars

(***************************************************************************)
(* Two clients at once, each with a session of its own, whose requests     *)
(* the server handles in any order.                                        *)
(***************************************************************************)
MaxPairSteps == 8

\* The two clients submit forms filled in whole, each page's form in more
\* than one way.
PairQueriesFor(frame) ==
  CASE frame.pc = "overview" ->
         { Obj([addQuestion |-> On, type |-> Str(FreeType)]),
           Obj([addQuestion |-> On, type |-> Str(MultipleType)]),
           Obj([playQuiz |-> On]) }
    [] frame.pc = "create" ->
         IF frame.ctype = FreeType
         THEN { Obj([question |-> Capital, answer |-> Paris]),
                Obj([question |-> Geo, answer |-> Lyon]) }
         ELSE { Obj([question |-> Capital, correctIndex |-> Two, choice1 |-> Lyon,
                     choice2 |-> Paris, choice3 |-> Geo, choice4 |-> Two,
                     choice5 |-> Three]),
                Obj([question |-> Geo, correctIndex |-> Three, choice1 |-> Paris,
                     choice2 |-> Lyon, choice3 |-> Geo, choice4 |-> Two,
                     choice5 |-> Three]) }
    [] frame.pc = "present" ->
         { Obj([answer |-> paris]), Obj([answer |-> Lyon]), Obj([answer |-> Two]) }
    [] OTHER -> QueriesFor(frame)

PairRequestsFor(frame) ==
  IF frame.pc = "load"
  THEN { Request(EmptyQuery, Upload(JsonText(QuizOf(1)))),
         Request(EmptyQuery, Upload(JsonText(SampleQuiz))) }
  ELSE { Request(q, Undefined) : q \in PairQueriesFor(frame) }

PairLoad ==
  /\ nextUUID <= MaxPairSteps
  /\ Cardinality(DOMAIN continuations) < MaxSessions
  /\ HandleLoad
  /\ history' = <<last>>
  /\ UNCHANGED <<pending, answered, probe, handler>>

PairResume ==
  \E continuationID \in DOMAIN continuations :
    \E req \in PairRequestsFor(continuations[continuationID]) :
    /\ nextUUID <= MaxPairSteps
    /\ HandleContinue(continuationID, req)
    /\ history' = <<last>>
    /\ UNCHANGED <<pending, answered, probe, handler>>

NextPair == PairLoad \/ PairResume

SpecPair == Init /\ [][NextPair]_vars

(***************************************************************************)
(* Many clients open /new and leave; the first of them comes back.         *)
(***************************************************************************)
FloodTokens == MAX_CONTINUATIONS + 2

FloodNew ==
  /\ nextUUID <= FloodTokens
  /\ HandleNew
  /\ UNCHANGED <<pending, answered, probe, handler, history>>

FloodContinue ==
  /\ 1 < nextUUID /\ nextUUID <= FloodTokens
  /\ HandleContinue(UUID(1), Request(Obj([quizTitle |-> Geo]), Undefined))
  /\ UNCHANGED <<pending, answered, probe, handler, history>>

NextFlood == FloodNew \/ FloodContinue

SpecFlood == Init /\ [][NextFlood]_vars

(***************************************************************************)
(* Requests that wait before they are handled.  The event loop takes the   *)
(* waiting requests one at a time, in any order, and runs each handler to  *)
(* its end before the next.                                                *)
(***************************************************************************)
MaxPending == 2
MaxArrivals == 4

Arrivals == Cardinality(pending) + Cardinality(DOMAIN answered)

Arrive(route, continuationID, req) ==
  /\ Cardinality(pending) < MaxPending
  /\ Arrivals < MaxArrivals
  /\ pending' = pending \cup
       { [id |-> Arrivals + 1, route |-> route, token |-> continuationID,
          req |-> req, live |-> continuationID \in DOMAIN continuations] }
  /\ UNCHANGED <<continuations, uuids, nextUUID, g, last, resumptions, answered,
                 probe, handler, history>>

ArriveNew == Arrive("new", NoToken, NoInput)

\* A client submits the form of a page whose identifier is live.
ArriveContinue ==
  \E continuationID \in DOMAIN continuations :
    \E req \in RequestsFor(continuations[continuationID]) :
      Arrive("continue", continuationID, req)

Take ==
  \E r \in pending :
    /\ IF r.route = "new" THEN HandleNew ELSE HandleContinue(r.token, r.req)
    /\ pending' = pending \ {r}
    /\ answered' =
         (r.id :> [route |-> r.route, token |-> r.token, live |-> r.live,
                   invoked |-> last'.invoked, sends |-> last'.sends]) @@ answered
    /\ UNCHANGED <<probe, handler, history>>

NextRace == ArriveNew \/ ArriveContinue \/ Take

SpecRace == Init /\ [][NextRace]_vars

(***************************************************************************)
(* The handlers statement by statement: sendSuspend sends the page (line   *)
(* 27) before the promise executor stores the callback (line 29).  A       *)
(* client may answer a page as soon as it was sent.                        *)
(***************************************************************************)

\* A sendSuspend that awaits between sending the page and storing the
\* callback: the event loop takes the next request in between.
CanTakeAwaiting(h) == h = NoHandler \/ h.at = "sent"

\* The event loop takes the next request when the handler it runs has
\* returned.  sendSuspend is synchronous, so a handler that is inside it has
\* not.
CanTake(h) == h = NoHandler

\* The identifiers of the pages sent so far.
Delivered == { UUID(n) : n \in 1..(nextUUID - 1) }

\* The suspensions the identifier of a sent page may belong to: the one
\* stored under it, or the one the running handler is about to store.
FramesOf(continuationID) ==
  IF continuationID \in DOMAIN continuations
  THEN { continuations[continuationID] }
  ELSE IF handler # NoHandler /\ handler.at = "sent"
          /\ handler.continuationID = continuationID
  THEN { handler.frame }
  ELSE {}

StepsArriveNew == ArriveNew

\* A client submits the form of a page it was sent.
StepsArriveContinue ==
  \E continuationID \in Delivered \ DOMAIN resumptions :
    \E frame \in FramesOf(continuationID) :
      \E req \in RequestsFor(frame) :
        Arrive("continue", continuationID, req)

\* The event loop calls the route handler of a waiting request, which runs
\* up to the procedure's sendSuspend call or to its end.
Begin ==
  /\ CanTake(handler)
  /\ \E r \in pending :
       /\ pending' = pending \ {r}
       /\ IF r.route = "new" THEN
            /\ handler' =
                 [at |-> "suspend",
                  outcome |-> Suspended(Frame("new", Undefined, NoType, 0, <<>>),
                                        "new-quiz.pug",
                                        [title |-> "Create a new quiz"], g)]
            /\ last' = Handled("new", NoToken, NoInput, "none", NoPlace, FALSE, <<>>)
            /\ UNCHANGED <<continuations, g, resumptions>>
          ELSE IF r.token \in DOMAIN continuations THEN
            LET out == Resume(continuations[r.token], r.req, g) IN
            /\ continuations' = Delete(continuations, r.token)
            /\ resumptions' =
                 (r.token :>
                    (IF r.token \in DOMAIN resumptions
                     THEN resumptions[r.token] + 1 ELSE 1)) @@ resumptions
            /\ g' = out.g
            /\ last' = Handled("continue", r.token, r.req, "continuation",
                               continuations[r.token].pc, out.threw, <<>>)
            /\ handler' = IF out.threw THEN NoHandler
                          ELSE [at |-> "suspend", outcome |-> out]
          ELSE
            /\ last' = Handled("continue", r.token, r.req,
                               IF Defined(continuations, r.token)
                               THEN "inherited" ELSE "none",
                               NoPlace, FALSE,
                               IF Defined(continuations, r.token)
                               THEN <<>> ELSE <<ExpiredNotice>>)
            /\ handler' = NoHandler
            /\ UNCHANGED <<continuations, g, resumptions>>
       /\ answered' =
            (r.id :> [route |-> r.route, token |-> r.token, live |-> r.live,
                      invoked |-> last'.invoked, sends |-> last'.sends]) @@ answered
  /\ UNCHANGED <<uuids, nextUUID, probe, history>>

\* sendSuspend, lines 17-27: mint the identifier, evict, send the page.
SendStep ==
  /\ handler # NoHandler /\ handler.at = "suspend"
  /\ LET continuationID == UUID(nextUUID)
         evicted == Evict(PushIndexed(uuids, continuationID), continuations)
     IN /\ uuids' = evicted.uuids
        /\ continuations' = evicted.continuations
        /\ nextUUID' = nextUUID + 1
        /\ last' = [last EXCEPT !.sends =
                      <<Page(handler.outcome.filename, continuationID,
                             handler.outcome.options)>>]
        /\ handler' = [at |-> "sent", continuationID |-> continuationID,
                       frame |-> handler.outcome.frame]
  /\ UNCHANGED <<g, resumptions, pending, answered, probe, history>>

\* sendSuspend, line 29: the promise executor stores the callback, and the
\* handler returns.
StoreStep ==
  /\ handler # NoHandler /\ handler.at = "sent"
  /\ continuations' = Store(continuations, handler.continuationID, handler.frame)
  /\ handler' = NoHandler
  /\ UNCHANGED <<uuids, nextUUID, g, last, resumptions, pending, answered,
                 probe, history>>

NextSteps ==
  StepsArriveNew \/ StepsArriveContinue \/ Begin \/ SendStep \/ StoreStep

SpecSteps == Init /\ [][NextSteps]_vars

(***************************************************************************)
(* A question type's mark on its own.                                      *)
(***************************************************************************)
MaxStrLen == 2

ProbeAlphabet == {"P", "p", "L", "l", "a"}

ProbeStrings ==
  UNION { [1..n -> ProbeAlphabet] : n \in 0..MaxStrLen }
    \cup { Paris.s, paris.s, Lyon.s, <<"p", "a", "r", "i", "s", "s">> }

MaxIndex == 11

RECURSIVE DecimalString(_)
\* The decimal string of a natural number, as a form field carries it.
DecimalString(n) ==
  IF n < 10 THEN <<Digits[n + 1]>>
  ELSE DecimalString(n \div 10) \o <<Digits[(n % 10) + 1]>>

\* An index as a number or as its decimal string.
ProbeIndexes ==
  { Num(n) : n \in 0..MaxIndex } \cup { Str(DecimalString(n)) : n \in 0..MaxIndex }

FreeProbes ==
  { [fn |-> FreeType, question |-> Obj([answer |-> Str(e)]),
     answer |-> Str(a), done |-> FALSE, result |-> FALSE] :
     e \in ProbeStrings, a \in ProbeStrings }

MultipleProbes ==
  { [fn |-> MultipleType, question |-> Obj([answer |-> e]),
     answer |-> a, done |-> FALSE, result |-> FALSE] :
     e \in ProbeIndexes, a \in ProbeIndexes }

InitMark ==
  /\ InitServer
  /\ probe \in FreeProbes \cup MultipleProbes

\* questionTypes[fn].mark(question, answer) for arguments it does not throw on.
ApplyMark ==
  /\ ~probe.done
  /\ ~markThrows(probe.fn, probe.question, probe.answer)
  /\ probe' = [probe EXCEPT !.done = TRUE,
                 !.result = mark(probe.fn, probe.question, probe.answer)]
  /\ UNCHANGED <<continuations, uuids, nextUUID, g, last, resumptions, pending,
                 answered, handler, history>>

NextMark == ApplyMark

SpecMark == InitMark /\ [][NextMark]_vars

(***************************************************************************)
(* Properties.                                                             *)
(***************************************************************************)

\* The step handled a /continue request carrying continuationID, which was
\* live before it.
Resumed(continuationID) ==
  /\ continuationID \in DOMAIN continuations
  /\ last'.route = "continue"
  /\ last'.token = continuationID

\* The request handled last was answered with the notice and nothing else.
Expired(answer) == answer.invoked = "none" /\ answer.sends = <<ExpiredNotice>>

C1_Step ==
  /\ \A t \in DOMAIN resumptions' : resumptions'[t] <= 1
  /\ \A t \in DOMAIN resumptions :
       (last'.route = "continue" /\ last'.token = t)
         => /\ Expired(last')
            /\ UNCHANGED <<continuations, uuids, nextUUID, g, resumptions>>

\* C1: for every identifier a suspension minted, at most one request
\* carrying it invokes the stored callback; every later request carrying it
\* is answered with the notice and changes nothing.
C1_AtMostOneResume == [][C1_Step]_vars

\* A request carrying an identifier that was resumed before is answered
\* with the notice.
C1_Witness ==
  /\ last.route = "continue"
  /\ last.token \in DOMAIN resumptions
  /\ Expired(last)

\* C2: the number of entries of continuations never exceeds
\* MAX_CONTINUATIONS.
C2_SizeBounded == Cardinality(DOMAIN continuations) <= MAX_CONTINUATIONS

\* C3: eviction is first in, first out, and an evicted identifier stays
\* unresumable: a request carrying an identifier that more than
\* MAX_CONTINUATIONS later suspensions have followed is answered with the
\* notice and resumes nothing.
C3_EvictedStaysExpired ==
  (/\ last.route = "continue"
   /\ "uuid" \in DOMAIN last.token
   /\ last.token.uuid + MAX_CONTINUATIONS < nextUUID - 1)
    => Expired(last)

\* C4: a request carrying any value under which no suspension holds a
\* callback is answered with the notice, and no callback of any kind is
\* invoked.
C4_AbsentIsExpired ==
  (last.route = "continue" /\ last.invoked # "continuation") => Expired(last)

\* C5: of the requests that carried the same identifier and were received
\* while it was live, exactly one resumed the procedure, which advanced
\* once; each of the others was answered with the notice.
C5_ExactlyOneSucceeds ==
  \A i \in DOMAIN answered :
    (answered[i].route = "continue" /\ answered[i].live) =>
      LET same == { j \in DOMAIN answered :
                      /\ answered[j].route = "continue"
                      /\ answered[j].token = answered[i].token }
          won == { j \in same : answered[j].invoked = "continuation" }
      IN /\ Cardinality(won) = 1
         /\ \A j \in same \ won : Expired(answered[j])
         /\ answered[i].token \in DOMAIN resumptions
         /\ resumptions[answered[i].token] = 1

\* Two requests carrying the same identifier, both received while it was
\* live, have both been handled.
C5_Witness ==
  \E i, j \in DOMAIN answered :
    /\ i # j
    /\ answered[i].route = "continue" /\ answered[j].route = "continue"
    /\ answered[i].token = answered[j].token
    /\ answered[i].live /\ answered[j].live

C6_Step ==
  \A t \in DOMAIN continuations :
    (/\ Resumed(t)
     /\ continuations[t].pc = "overview"
     /\ continuations[t].quiz.t = "object"
     /\ Get(continuations[t].quiz, "questions") = Arr(<<>>)
     /\ ~Truthy(Get(last'.req.query, "addQuestion"))
     /\ Truthy(Get(last'.req.query, "playQuiz")))
      => /\ ~last'.threw
         /\ Len(last'.sends) = 1
         /\ last'.sends[1].filename = "finished-quiz.pug"
         /\ last'.sends[1].options.totalQuestions = 0
         /\ last'.sends[1].options.answersCorrect = Num(0)

\* C6: playing a quiz with no questions reaches the finished summary
\* without error, and the summary reports totalQuestions = 0 and
\* answersCorrect = 0.
C6_EmptyQuizFinishes == [][C6_Step]_vars

C7_Step ==
  \A t \in DOMAIN continuations :
    (/\ Resumed(t)
     /\ continuations[t].pc = "present"
     /\ Get(last'.req.query, "answer") = Undefined)
      => /\ ~last'.threw
         /\ Len(last'.sends) = 1
         /\ last'.sends[1].filename = "feedback.pug"
         /\ last'.sends[1].options.correct = FALSE

\* C7: a presented question resumed without an answer field does not abort
\* the play procedure: the answer is marked incorrect and the feedback is
\* shown.
C7_MissingAnswerIsIncorrect == [][C7_Step]_vars

WellFormedQuestion(q) ==
  /\ q.t = "object"
  /\ HasQuestionType(Get(q, "type"))
  /\ Get(q, "text").t = "string"
  /\ IF Get(q, "type").s = FreeType
     THEN Get(q, "answer").t = "string"
     ELSE /\ Get(q, "answer").t \in {"string", "number"}
          /\ Get(q, "choices").t = "array"
          /\ \A i \in 1..Len(Get(q, "choices").elems) :
               Get(q, "choices").elems[i].t = "string"

WellFormedQuiz(v) ==
  /\ v.t = "object"
  /\ Get(v, "title").t = "string"
  /\ Get(v, "questions").t = "array"
  /\ \A i \in 1..Len(Get(v, "questions").elems) :
       WellFormedQuestion(Get(v, "questions").elems[i])

\* The upload is missing, is no JSON, or denotes no Quiz.
MalformedUpload(files) ==
  \/ ~CanRead(files)
  \/ ~CanRead(Get(files, "file"))
  \/ JSONparseThrows(Get(Get(files, "file"), "data"))
  \/ ~WellFormedQuiz(JSONparse(Get(Get(files, "file"), "data")))

C8_Step ==
  \A t \in DOMAIN continuations :
    (/\ Resumed(t)
     /\ continuations[t].pc = "load"
     /\ MalformedUpload(last'.req.files))
      => /\ ~last'.threw
         /\ Len(last'.sends) = 1
         /\ last'.sends[1].filename # "quiz-overview.pug"
         /\ \A u \in DOMAIN continuations' \ DOMAIN continuations :
              continuations'[u].pc # "overview"

\* C8: in the load flow a missing, unparseable or ill-formed upload is
\* answered with an error report, and the session does not enter the
\* authoring procedure with it.
C8_MalformedImportRejected == [][C8_Step]_vars

RECURSIVE DeepEqual(_, _)
\* Deep equality that takes a property holding undefined for an absent one.
DeepEqual(a, b) ==
  IF a.t = "object" /\ b.t = "object"
  THEN \A k \in DOMAIN a.props \cup DOMAIN b.props : DeepEqual(Get(a, k), Get(b, k))
  ELSE IF a.t = "array" /\ b.t = "array"
  THEN /\ Len(a.elems) = Len(b.elems)
       /\ \A i \in 1..Len(a.elems) : DeepEqual(a.elems[i], b.elems[i])
  ELSE a = b

\* C9: the export an overview page carries, imported again, is a Quiz with
\* the same title and the same question sequence as the one exported.
C9_ExportImportRoundTrip ==
  \A i \in 1..Len(last.sends) :
    (last.sends[i].kind = "page" /\ last.sends[i].filename = "quiz-overview.pug")
      => LET quiz == last.sends[i].options.quiz
             text == last.sends[i].options.downloadLink.base64
         IN /\ ~JSONparseThrows(text)
            /\ DeepEqual(Get(JSONparse(text), "title"), Get(quiz, "title"))
            /\ DeepEqual(Get(JSONparse(text), "questions"), Get(quiz, "questions"))

\* The same letter, in either case.
SameLetter(c, d) ==
  \/ c = d
  \/ c \in UpperCase /\ LowerCaseOf[c] = d
  \/ d \in UpperCase /\ LowerCaseOf[d] = c

EqualIgnoringCase(s, u) ==
  Len(s) = Len(u) /\ \A i \in 1..Len(s) : SameLetter(s[i], u[i])

\* C10: free-text mark is true exactly when the submitted string equals the
\* expected answer ignoring letter case.
C10_FreeMarkIgnoresCase ==
  (probe # NoProbe /\ probe.fn = FreeType /\ probe.done) =>
    (probe.result <=> EqualIgnoringCase(Get(probe.question, "answer").s, probe.answer.s))

\* mark({answer: "Paris"}, "paris") has been found true.
C10_Witness ==
  /\ probe # NoProbe /\ probe.fn = FreeType /\ probe.done
  /\ Get(probe.question, "answer") = Paris
  /\ probe.answer = paris
  /\ probe.result

\* The number an index denotes.
IndexDenoted(v) ==
  IF v.t = "number" THEN v.n
  ELSE CHOOSE n \in 0..MaxIndex : DecimalString(n) = v.s

\* C11: multiple-choice mark is true exactly when the submitted index
\* denotes the same number as the stored correct index, each given as a
\* number or as its decimal string.
C11_MultipleMarkComparesIndexes ==
  (probe # NoProbe /\ probe.fn = MultipleType /\ probe.done) =>
    (probe.result <=>
       IndexDenoted(Get(probe.question, "answer")) = IndexDenoted(probe.answer))

\* mark({answer: 2}, "2") has been found true.
C11_Witness ==
  /\ probe # NoProbe /\ probe.fn = MultipleType /\ probe.done
  /\ Get(probe.question, "answer") = Num(2)
  /\ probe.answer = Two
  /\ probe.result

C12_Step ==
  \A t \in DOMAIN continuations :
    IF last'.route = "continue" /\ last'.token = t
    THEN LET out == Resume(continuations[t], last'.req, g) IN
         /\ last'.invoked = "continuation"
         /\ \A u \in DOMAIN continuations \ {t} :
              u \in DOMAIN continuations' /\ continuations'[u] = continuations[u]
         /\ last'.threw = out.threw
         /\ IF out.threw
            THEN /\ last'.sends = <<>>
                 /\ DOMAIN continuations' = DOMAIN continuations \ {t}
            ELSE /\ last'.sends =
                      <<Page(out.filename, UUID(nextUUID), out.options)>>
                 /\ DOMAIN continuations' =
                      (DOMAIN continuations \ {t}) \cup {UUID(nextUUID)}
                 /\ continuations'[UUID(nextUUID)] = out.frame
    ELSE t \in DOMAIN continuations' /\ continuations'[t] = continuations[t]

\* C12: a suspended procedure takes no step until a request carrying the
\* identifier its suspension minted is handled; that request makes it
\* continue from the suspension point with the request it delivered and
\* answer on that request's response, and every other suspended procedure
\* stays where it is.
C12_ResumedOnlyByOwnToken == [][C12_Step]_vars

\* A procedure was resumed to its next suspension while another one waited.
C12_Witness ==
  /\ last.route = "continue" /\ last.invoked = "continuation" /\ ~last.threw
  /\ Cardinality(DOMAIN continuations) >= 2
  /\ \E t \in DOMAIN continuations :
       /\ t # last.sends[1].continueURL
       /\ continuations[t].pc \notin {"new", "load"}

C13_Step ==
  \A t \in DOMAIN continuations :
    (/\ Resumed(t)
     /\ continuations[t].pc = "overview"
     /\ ~Truthy(Get(last'.req.query, "addQuestion"))
     /\ ~Truthy(Get(last'.req.query, "playQuiz")))
      => /\ ~last'.threw
         /\ Len(last'.sends) = 1
         /\ last'.sends[1].filename = "quiz-overview.pug"
         /\ last'.sends[1].options.quiz = continuations[t].quiz
         /\ continuations'[last'.sends[1].continueURL].pc = "overview"
         /\ continuations'[last'.sends[1].continueURL].quiz = continuations[t].quiz

\* C13: the overview resumed with an input that asks neither for a new
\* question nor to play suspends again on the overview of the same quiz,
\* whose title and questions are unchanged.
C13_IdleOverviewLoops == [][C13_Step]_vars

\* The overview of a quiz with questions was shown again after an input
\* that asked for nothing.
C13_Witness ==
  /\ last.pc = "overview" /\ ~last.threw
  /\ ~Truthy(Get(last.req.query, "addQuestion"))
  /\ ~Truthy(Get(last.req.query, "playQuiz"))
  /\ last.sends[1].filename = "quiz-overview.pug"
  /\ Get(last.sends[1].options.quiz, "questions").t = "array"
  /\ Len(Get(last.sends[1].options.quiz, "questions").elems) >= 1

\* The frame the request handled in this step left suspended.
NextFrame == continuations'[last'.sends[1].continueURL]

C14_Step ==
  \A t \in DOMAIN continuations :
    LET frame == continuations[t] IN
    /\ (Resumed(t) /\ frame.pc = "finished") =>
         /\ ~last'.threw
         /\ Len(last'.sends) = 1
         /\ NextFrame.quiz = frame.quiz
         /\ IF Truthy(Get(last'.req.query, "overview"))
            THEN /\ last'.sends[1].filename = "quiz-overview.pug"
                 /\ last'.sends[1].options.quiz = frame.quiz
                 /\ NextFrame.pc = "overview"
            ELSE LET first == Get(frame.quiz, "questions").elems[1] IN
                 /\ last'.sends[1].filename = present(Get(first, "type").s)
                 /\ last'.sends[1].options.question = first
                 /\ last'.sends[1].options.quiz = frame.quiz
                 /\ NextFrame.pc = "present"
                 /\ NextFrame.qi = 1
                 /\ NextFrame.stats = <<>>
    /\ (/\ Resumed(t)
        /\ ~last'.threw
        /\ \/ frame.pc \in {"present", "feedback"}
           \/ frame.pc = "overview" /\ NextFrame.pc = "present")
         => NextFrame.quiz = frame.quiz

\* C14: the finished summary resumed with a request for the overview
\* re-enters the authoring loop with the same quiz; resumed with anything
\* else it replays the same quiz from its first question; no step of the
\* play procedure changes the quiz.
C14_FinishedReturnsOrReplays == [][C14_Step]_vars

\* After a finished summary the overview of the quiz played was shown.
C14_Witness ==
  /\ last.pc = "finished" /\ ~last.threw
  /\ Truthy(Get(last.req.query, "overview"))
  /\ last.sends[1].filename = "quiz-overview.pug"
  /\ Len(Get(last.sends[1].options.quiz, "questions").elems) >= 1

\* After a finished summary the first question was presented again.
C14_WitnessReplay ==
  /\ last.pc = "finished" /\ ~last.threw
  /\ last.sends[1].filename = "present-free-text.pug"

\* The step resumed frame so that a pass of playQuiz begins.
StartsPass(frame) ==
  \/ /\ frame.pc = "overview"
     /\ ~Truthy(Get(last'.req.query, "addQuestion"))
     /\ Truthy(Get(last'.req.query, "playQuiz"))
  \/ /\ frame.pc = "finished"
     /\ ~Truthy(Get(last'.req.query, "overview"))

\* The step sent the presentation of the i-th question of quiz and left
\* the procedure suspended there.
Presents(quiz, i) ==
  LET question == Get(quiz, "questions").elems[i] IN
  /\ ~last'.threw
  /\ Len(last'.sends) = 1
  /\ last'.sends[1].filename = present(Get(question, "type").s)
  /\ last'.sends[1].options.question = question
  /\ NextFrame.pc = "present"
  /\ NextFrame.qi = i

C15_Step ==
  \A t \in DOMAIN continuations :
    LET frame == continuations[t]
        questions == Get(frame.quiz, "questions").elems
    IN Resumed(t) =>
      /\ (StartsPass(frame) /\ ~last'.threw) => Presents(frame.quiz, 1)
      /\ frame.pc = "present" =>
           LET question == questions[frame.qi]
               typename == Get(question, "type").s
               answer == Get(last'.req.query, "answer")
           IN \/ markThrows(typename, question, answer)
              \/ /\ ~last'.threw
                 /\ Len(last'.sends) = 1
                 /\ last'.sends[1].filename = "feedback.pug"
                 /\ last'.sends[1].options.question = question
                 /\ last'.sends[1].options.userAnswer = answer
                 /\ last'.sends[1].options.correct = mark(typename, question, answer)
                 /\ NextFrame.pc = "feedback"
                 /\ NextFrame.qi = frame.qi
      /\ (frame.pc = "feedback" /\ frame.qi < Len(questions)) =>
           Presents(frame.quiz, frame.qi + 1)
      /\ (frame.pc = "feedback" /\ frame.qi >= Len(questions)) =>
           /\ ~last'.threw
           /\ Len(last'.sends) = 1
           /\ last'.sends[1].filename = "finished-quiz.pug"
           /\ NextFrame.pc = "finished"
      /\ (~last'.threw /\ last'.sends[1].filename = "finished-quiz.pug") =>
           /\ frame.pc = "feedback"
           /\ frame.qi = Len(questions)
           /\ Len(frame.stats) = Len(questions)
      /\ (~last'.threw /\ NextFrame.pc = "present") =>
           \/ StartsPass(frame) /\ NextFrame.qi = 1
           \/ frame.pc = "feedback" /\ NextFrame.qi = frame.qi + 1
      /\ (~last'.threw /\ last'.sends[1].filename = "feedback.pug") =>
           frame.pc = "present"

C16_Step ==
  \A t \in DOMAIN continuations :
    LET frame == continuations[t]
        questions == Get(frame.quiz, "questions").elems
    IN (/\ Resumed(t)
        /\ frame.pc = "feedback"
        /\ frame.qi = Len(questions)
        /\ Len(questions) >= 1)
         => /\ ~last'.threw
            /\ Len(last'.sends) = 1
            /\ last'.sends[1].filename = "finished-quiz.pug"
            /\ last'.sends[1].options.totalQuestions = Len(questions)
            /\ Len(frame.stats) = Len(questions)
            /\ last'.sends[1].options.answersCorrect = Num(CountCorrect(frame.stats))

\* C16: the finished summary of every pass over n >= 1 questions reports
\* totalQuestions = n and answersCorrect = the number of questions of that
\* pass that mark judged correct, a count in 0..n.
C16_SummaryCounts == [][C16_Step]_vars

\* question holds what the create form of typename submitted in query, and
\* is tagged with typename.
HoldsSubmitted(question, typename, query) ==
  /\ Get(question, "type") = Str(typename)
  /\ Get(question, "text") = Get(query, "question")
  /\ IF typename = FreeType
     THEN /\ Get(question, "answer") = Get(query, "answer")
          /\ DOMAIN question.props = {"type", "text", "answer"}
     ELSE /\ Get(question, "answer") = Get(query, "correctIndex")
          /\ Get(question, "choices") =
               Arr(<<Get(query, "choice1"), Get(query, "choice2"),
                     Get(query, "choice3"), Get(query, "choice4"),
                     Get(query, "choice5")>>)
          /\ DOMAIN question.props = {"type", "text", "answer", "choices"}

C17_Step ==
  \A t \in DOMAIN continuations :
    LET frame == continuations[t] IN
    /\ (/\ Resumed(t)
        /\ frame.pc = "overview"
        /\ Truthy(Get(last'.req.query, "addQuestion"))
        /\ HasQuestionType(Get(last'.req.query, "type")))
         => /\ ~last'.threw
            /\ Len(last'.sends) = 1
            /\ last'.sends[1].filename = CreateTemplate(Get(last'.req.query, "type").s)
            /\ NextFrame.pc = "create"
            /\ NextFrame.ctype = Get(last'.req.query, "type").s
            /\ NextFrame.quiz = frame.quiz
    /\ (Resumed(t) /\ frame.pc = "create")
         => /\ ~last'.threw
            /\ Len(last'.sends) = 1
            /\ last'.sends[1].filename = "quiz-overview.pug"
            /\ last'.sends[1].options.quiz = NextFrame.quiz
            /\ NextFrame.pc = "overview"
            /\ DOMAIN NextFrame.quiz.props = DOMAIN frame.quiz.props
            /\ Get(NextFrame.quiz, "title") = Get(frame.quiz, "title")
            /\ LET before == Get(frame.quiz, "questions").elems
                   after == Get(NextFrame.quiz, "questions").elems
               IN /\ Len(after) = Len(before) + 1
                  /\ SubSeq(after, 1, Len(before)) = before
                  /\ HoldsSubmitted(after[Len(after)], frame.ctype, last'.req.query)

\* C17: the overview resumed with a request to add a question of a
\* registered type T suspends on T's create form; that form resumed, the
\* quiz has exactly one more question, at the end, tagged T and holding
\* the submitted fields, its title and earlier questions are as before,
\* and the overview is shown again.
C17_AddAppendsOneQuestion == [][C17_Step]_vars

\* A free-text question was appended to a quiz that had a question.
C17_Witness ==
  /\ last.pc = "create" /\ ~last.threw
  /\ last.sends[1].filename = "quiz-overview.pug"
  /\ LET questions == Get(last.sends[1].options.quiz, "questions").elems
     IN /\ Len(questions) >= 2
        /\ Get(questions[Len(questions)], "type") = Str(FreeType)
        /\ Get(questions[Len(questions)], "answer") = Paris
        /\ Get(questions[1], "type") = Str(MultipleType)

C18_Step ==
  \A r \in pending :
    (/\ r \notin pending'
     /\ r.route = "continue"
     /\ r.token \in Delivered
     /\ r.token \notin DOMAIN resumptions)
      => /\ r.token \in DOMAIN continuations
         /\ last'.invoked = "continuation"

\* C18: no request that carries the identifier of a page already sent, and
\* not yet resumed, is handled while no callback is stored under that
\* identifier: sending the page and storing the callback are one step for
\* the handling of requests.
C18_SentImpliesStored == [][C18_Step]_vars

\* A request that arrived between the sending of a page and the storing of
\* its callback resumed the procedure.
C18_Witness ==
  \E i \in DOMAIN answered :
    /\ answered[i].route = "continue"
    /\ ~answered[i].live
    /\ answered[i].invoked = "continuation"

C19_Step ==
  /\ (last' # last /\ last'.route \in {"new", "load"}) =>
       ~last'.threw /\ Len(last'.sends) = 1
  /\ \A t \in DOMAIN continuations :
       Resumed(t) => ~last'.threw /\ Len(last'.sends) = 1

\* C19: every request to /new or /load and every request that carries a
\* live identifier is answered exactly once, whatever input it carries: the
\* procedure it starts or resumes reaches its next suspension and sends one
\* message on the response of that request.
C19_AnsweredExactlyOnce == [][C19_Step]_vars

\* The overview resumed with a request to add a question whose type is
\* missing or not registered sends nothing.
C19_AddWithoutTypeUnanswered ==
  /\ last.pc = "overview" /\ last.invoked = "continuation"
  /\ Truthy(Get(last.req.query, "addQuestion"))
  /\ ~HasQuestionType(Get(last.req.query, "type"))
  /\ last.sends = <<>>

\* The suspensions after which the procedure assigns the global req, and
\* the one after which it assigns the global question.
AssignsReq(pc) == pc \in {"overview", "present", "feedback", "finished"}
AssignsQuestion(pc) == pc = "create"

C20_Step ==
  \A t \in DOMAIN continuations :
    LET frame == continuations[t]
        query == last'.req.query
    IN (Resumed(t) /\ ~last'.threw) =>
      /\ frame.pc = "overview" =>
           IF Truthy(Get(query, "addQuestion"))
           THEN NextFrame.pc = "create" /\ Str(NextFrame.ctype) = Get(query, "type")
           ELSE IF Truthy(Get(query, "playQuiz")) THEN NextFrame.pc = "present"
           ELSE NextFrame.pc = "overview"
      /\ frame.pc = "create" =>
           LET after == Get(NextFrame.quiz, "questions").elems IN
           /\ Len(after) = Len(Get(frame.quiz, "questions").elems) + 1
           /\ HoldsSubmitted(after[Len(after)], frame.ctype, query)
      /\ frame.pc = "present" =>
           LET question == Get(frame.quiz, "questions").elems[frame.qi] IN
           /\ last'.sends[1].filename = "feedback.pug"
           /\ last'.sends[1].options.userAnswer = Get(query, "answer")
           /\ last'.sends[1].options.correct =
                mark(Get(question, "type").s, question, Get(query, "answer"))
      /\ frame.pc = "finished" =>
           IF Truthy(Get(query, "overview")) THEN NextFrame.pc = "overview"
           ELSE NextFrame.pc = "present"

\* C20: whatever the order in which the requests of two sessions are
\* handled, a resumed procedure acts on the request that resumed it: the
\* branch it takes in the overview and after the summary, the question it
\* appends and the answer it marks and shows are those of that request,
\* although req and question are variables of the whole process.
C20_SessionsIsolated == [][C20_Step]_vars

\* An answer was marked and shown right after a request of the other
\* session, carrying another answer, had been assigned to the global req.
C20_Witness ==
  /\ Len(history) = 1
  /\ history[1].invoked = "continuation" /\ ~history[1].threw
  /\ AssignsReq(history[1].pc)
  /\ history[1].sends[1].continueURL # last.token
  /\ Get(history[1].req.query, "answer") = Lyon
  /\ last.pc = "present" /\ ~last.threw
  /\ Get(last.req.query, "answer") = paris
  /\ last.sends[1].options.userAnswer = paris
  /\ last.sends[1].options.correct

\* A question was appended right after the other session had assigned the
\* question it appended to the global question.
C20_WitnessCreate ==
  /\ Len(history) = 1
  /\ history[1].invoked = "continuation" /\ ~history[1].threw
  /\ AssignsQuestion(history[1].pc)
  /\ history[1].sends[1].continueURL # last.token
  /\ history[1].req.query # last.req.query
  /\ last.pc = "create" /\ ~last.threw

=============================================================================
